---- MODULE Spec2Model ----
(***************************************************************************)
(* Model of src/index.js: an express application that gates membership of  *)
(* a lichess team behind a government-identity check.  Every route handler  *)
(* is translated step by step; a handler that awaits is cut at its awaits,  *)
(* so that other requests can run between two steps as they do in node.     *)
(* The identity service, the team API, the OAuth provider and MongoDB are   *)
(* the environment: every call to them answers with one of the outcomes the *)
(* client code distinguishes (a value, or an exception).                    *)
(***************************************************************************)
EXTENDS Naturals, Sequences, FiniteSets, TLC

(***************************************************************************)
(* Bounds of the model.                                                     *)
(***************************************************************************)
\* Largest number of documents the players collection holds.
MaxPlayers == 2

\* The slots a request can occupy while it is handled.  Spec and LoginSpec
\* handle a request at a time, in the first slot.
ReqIds == {1, 2}

(***************************************************************************)
(* Accounts and sessions.  Sessions live in MongoStore (line 57-60) and     *)
(* outlive the process, so the application starts with sessions of every    *)
(* kind: one without userId, two of ordinary accounts, one of the account   *)
(* named by LICHESS_TEAM_ADMIN.                                             *)
(***************************************************************************)
NoValue == "undefined"

LICHESS_TEAM_ADMIN == "admin"

UserIds == {"alice", "bob", "admin"}

Sessions == {"s0", "s1", "s2", "s3"}

SessionUser(s) ==
    CASE s = "s1" -> "alice"
      [] s = "s2" -> "bob"
      [] s = "s3" -> "admin"
      [] OTHER    -> NoValue

\* The display name lichess reports for an account id.
UserNameOf(u) ==
    CASE u = "alice" -> "Alice"
      [] u = "bob"   -> "Bob"
      [] u = "admin" -> "Admin"
      [] OTHER       -> NoValue

\* The bearer token the OAuth provider issued for an account.
TokenOf(u) ==
    CASE u = "alice" -> "tok-alice"
      [] u = "bob"   -> "tok-bob"
      [] u = "admin" -> "tok-admin"
      [] OTHER       -> NoValue

\* The account a bearer token acts for on lichess.
TokenOwner(t) ==
    CASE t = "tok-alice" -> "alice"
      [] t = "tok-bob"   -> "bob"
      [] t = "tok-admin" -> "admin"
      [] OTHER           -> NoValue

(***************************************************************************)
(* National ids are strings, modelled as sequences of characters.           *)
(***************************************************************************)
Digits == {"0", "1", "2", "3", "4", "5", "6", "7", "8", "9"}

Id8 == <<"1", "2", "3", "4", "5", "6", "7", "8">>

Id11 == <<"1", "0", "0", "0", "0", "0", "0", "0", "1", "4", "6">>

Id7 == <<"7", "6", "5", "4", "3", "2", "1">>

\* The ids a form submits.
Ids == {Id8, Id11, Id7}

\* The other form fields (name, surname, year): one submission each.
FormName == "Ayse"

FormSurname == "Yilmaz"

FormYear == "1990"

\* The remote service knows only well-formed national ids: all digits, and
\* at least the eight digits the stored mask presumes.
WellFormed(id) == Len(id) >= 8 /\ \A k \in 1..Len(id) : id[k] \in Digits

\* What verifyUserGovId can produce: the status of the remote service, or an
\* exception of the SOAP client.
VerifyOutcomes(id) ==
    IF WellFormed(id) THEN {"true", "false", "throw"} ELSE {"false", "throw"}

(***************************************************************************)
(* id.replace(/(?<=\d{3})\d{5}/, '*****'): the first place where five       *)
(* digits follow three digits is replaced, once; no such place, no change.  *)
(***************************************************************************)
MatchAt(s, i) ==
    /\ i >= 4
    /\ i + 4 <= Len(s)
    /\ \A k \in (i - 3)..(i + 4) : s[k] \in Digits

Stars == <<"*", "*", "*", "*", "*">>

\* Mutant: the pattern matches nothing.
MaskNothing(s) == s

MaskGovId(s) ==
    IF \E i \in 1..Len(s) : MatchAt(s, i)
    THEN LET i == CHOOSE i \in 1..Len(s) :
                     MatchAt(s, i) /\ \A j \in 1..(i - 1) : ~MatchAt(s, j)
         IN  SubSeq(s, 1, i - 1) \o Stars \o SubSeq(s, i + 5, Len(s))
    ELSE s

(***************************************************************************)
(* crypto.createHash('sha1').update(id, 'ascii').digest('hex'): a digest    *)
(* of the characters.  The model computes a small polynomial digest, which  *)
(* like SHA-1 tells apart every two strings the model handles.              *)
(***************************************************************************)
CharCode(c) ==
    CASE c = "0" -> 48 [] c = "1" -> 49 [] c = "2" -> 50 [] c = "3" -> 51
      [] c = "4" -> 52 [] c = "5" -> 53 [] c = "6" -> 54 [] c = "7" -> 55
      [] c = "8" -> 56 [] c = "9" -> 57 [] OTHER -> 42

RECURSIVE Digest(_)
Digest(s) ==
    IF s = << >> THEN 7
    ELSE (Digest(SubSeq(s, 1, Len(s) - 1)) * 31 + CharCode(s[Len(s)])) % 65521

Sha1(s) == Digest(s)

(***************************************************************************)
(* State.                                                                   *)
(*   players : the documents of the Player collection (line 25-38); _id is  *)
(*             the key MongoDB gives a document, here its insertion rank.   *)
(*   team    : the accounts on the roster of LICHESS_TEAM_ID at lichess.    *)
(*   session : req.session of every browser session.                        *)
(*   req     : the requests in flight: the handler's position, its local    *)
(*             variables, the calls it has made and its response.           *)
(***************************************************************************)
VARIABLES players, team, session, req

vars == <<players, team, session, req>>

NoResp == [kind |-> "none", code |-> 0, to |-> ""]

Redirect(code, url) == [kind |-> "redirect", code |-> code, to |-> url]

Render(view) == [kind |-> "render", code |-> 200, to |-> view]

IdleReq ==
    [route   |-> "idle",      \* the route being handled
     sid     |-> NoValue,     \* the session of the request
     pc      |-> "idle",      \* idle, the await the handler is at, or done
     id      |-> << >>,       \* req.body.id
     arg     |-> NoValue,     \* req.body.user, req.params.*, req.query.returnUrl
     status  |-> NoValue,     \* const status (line 222)
     found   |-> {},          \* bannedPlayers (line 231), player (line 187)
     userIds |-> {},          \* const userIds (line 296)
     token   |-> NoValue,     \* token.access_token (line 155)
     join    |-> "none",      \* what joinTeam answered (line 199, 254)
     kick    |-> "none",      \* kickTeamMember of Promise.all (line 359)
     upd     |-> "none",      \* findOneAndUpdate of Promise.all (line 360)
     caught  |-> FALSE,       \* the catch block of the handler ran
     seen    |-> {},          \* the collection as Player.find read it
     calls   |-> {},          \* the external calls the handler has made
     created |-> {},          \* the documents the handler has created
     shown   |-> {},          \* the players handed to the template
     resp    |-> NoResp]

Idle(r) == req[r].pc = "idle"

Done(r) == req[r].pc = "done"

\* The handler answers and returns.
Finish(r, response) ==
    req' = [req EXCEPT ![r].pc = "done", ![r].resp = response]

\* An awaited call threw: the catch block of the handler answers.
Catch(r, response) ==
    req' = [req EXCEPT ![r].pc = "done", ![r].caught = TRUE, ![r].resp = response]

NewReq(route, s) == [IdleReq EXCEPT !.route = route, !.sid = s]

Init ==
    /\ players = {}
    /\ team = {}
    /\ session = [s \in Sessions |->
                    [userId    |-> SessionUser(s),
                     userName  |-> UserNameOf(SessionUser(s)),
                     authToken |-> TokenOf(SessionUser(s)),
                     returnUrl |-> NoValue]]
    /\ req = [r \in ReqIds |-> IdleReq]

(***************************************************************************)
(* The Player collection.                                                   *)
(***************************************************************************)
\* The documents the collection held before the application started
\* (ConcSpec); MongoDB gave them their keys, here 0.
Seeded == {p \in players : p._id = 0}

\* The bound of the model: Player.create succeeds while fewer than
\* MaxPlayers documents have been created.
Room == Cardinality(players \ Seeded) < MaxPlayers

\* Mutant: the signature is taken of the masked id.
NewPlayerSigOfMasked(userId, userName, id, idSig, banned) ==
    [_id            |-> Cardinality(players) + 1,
     userId         |-> userId,
     userName       |-> userName,
     firstName      |-> FormName,
     lastName       |-> FormSurname,
     birthYear      |-> FormYear,
     govId          |-> MaskGovId(id),
     govIdSignature |-> Sha1(MaskGovId(id)),
     banned         |-> banned]

\* Player.create(doc): the document, with the key MongoDB assigns.
NewPlayer(userId, userName, id, idSig, banned) ==
    [_id            |-> Cardinality(players) + 1,
     userId         |-> userId,
     userName       |-> userName,
     firstName      |-> FormName,
     lastName       |-> FormSurname,
     birthYear      |-> FormYear,
     govId          |-> MaskGovId(id),
     govIdSignature |-> idSig,
     banned         |-> banned]

\* Mutant: the lookup asks for banned: false.
FindUnbanned(idSig) ==
    {p \in players : p.govIdSignature = idSig /\ ~p.banned}

\* Mutant: the lookup leaves out banned: true and gives every document
\* with the signature.
FindSignature(idSig) ==
    {p \in players : p.govIdSignature = idSig}

\* Player.find({govIdSignature: idSig, banned: true})
FindBanned(idSig) ==
    {p \in players : p.govIdSignature = idSig /\ p.banned}

\* Mutant: $nin and $in change places.
FindPlayersSwapped(playerType, userIds) ==
    {p \in players :
        /\ ~p.banned
        /\ IF playerType = "waiting" THEN p.userId \in userIds
                                     ELSE p.userId \notin userIds}

\* Player.find({userId: {$nin | $in: userIds}, banned: false})
FindPlayers(playerType, userIds) ==
    {p \in players :
        /\ ~p.banned
        /\ IF playerType = "waiting" THEN p.userId \notin userIds
                                     ELSE p.userId \in userIds}

\* Mutant: the update is an updateMany over the signature of document p.
SetBannedMany(p, b) ==
    {IF q.govIdSignature = p.govIdSignature THEN [q EXCEPT !.banned = b] ELSE q :
        q \in players}

\* Player.findOneAndUpdate({userId}, {banned: b}) on document p
SetBanned(p, b) ==
    (players \ {p}) \cup {[p EXCEPT !.banned = b]}

(***************************************************************************)
(* GET / (line 118) and GET /messages/:messageType (line 120-129).          *)
(***************************************************************************)
MessageTypes == {"success", "banned", "error"}

Home(r, s) ==
    /\ Idle(r)
    /\ req' = [req EXCEPT ![r] =
                 [NewReq("home", s) EXCEPT !.pc = "done",
                                           !.resp = Render("index/index.html.twig")]]
    /\ UNCHANGED <<players, team, session>>

Messages(r, s, messageType) ==
    /\ Idle(r)
    /\ req' = [req EXCEPT ![r] =
                 [NewReq("messages", s) EXCEPT
                    !.arg = messageType,
                    !.pc = "done",
                    !.resp = IF messageType \notin MessageTypes
                             THEN Redirect(302, "/")
                             ELSE Render("messages/" \o messageType \o ".html.twig")]]
    /\ UNCHANGED <<players, team, session>>

\* The response has been sent and the request is over.
Close(r) ==
    /\ Done(r)
    /\ req[r].kick \notin {"pending"}
    /\ req[r].upd \notin {"pending"}
    /\ req' = [req EXCEPT ![r] = IdleReq]
    /\ UNCHANGED <<players, team, session>>

(***************************************************************************)
(* GET /auth (line 131-142).                                                *)
(***************************************************************************)
ReturnUrls == {NoValue, "/verify/gov"}

AuthorizeURL == "https://oauth.lichess.org/oauth/authorize"

Auth(r, s, returnUrl) ==
    /\ Idle(r)
    /\ session' = [session EXCEPT ![s].returnUrl =
                     IF returnUrl = NoValue THEN "/" ELSE returnUrl]
    /\ req' = [req EXCEPT ![r] =
                 [NewReq("auth", s) EXCEPT !.arg = returnUrl,
                                           !.pc = "done",
                                           !.resp = Redirect(302, AuthorizeURL)]]
    /\ UNCHANGED <<players, team>>

(***************************************************************************)
(* GET /callback (line 144-174) and getUserInfo (line 110-116).             *)
(***************************************************************************)
\* What oauth2.authorizationCode.getToken and accessToken.create give: the
\* token of the account that authorized, no token, or an exception.
TokenOutcomes == {[threw |-> FALSE, token |-> TokenOf(u)] : u \in UserIds}
                 \cup {[threw |-> FALSE, token |-> NoValue],
                       [threw |-> TRUE, token |-> NoValue]}

\* What GET /api/account answers for a bearer token.
AccountOf(t) == [id |-> TokenOwner(t), username |-> UserNameOf(TokenOwner(t))]

\* Line 111-113 reads token.access_token, and no variable token is in the
\* scope of getUserInfo: evaluating the argument of api.get throws a
\* ReferenceError, the request is never sent and the promise rejects.
getUserInfo(authToken) == [threw |-> TRUE, data |-> AccountOf(NoValue)]

\* Mutant: the catch block redirects to the return URL.
CallbackCatchReturn(r) == Redirect(303, req[r].arg)

\* catch (line 169-172)
CallbackCatch(r) == Redirect(303, "/")

CallbackStart(r, s) ==
    /\ Idle(r)
    /\ req' = [req EXCEPT ![r] =
                 [NewReq("callback", s) EXCEPT
                    !.arg = IF session[s].returnUrl = NoValue
                            THEN "/" ELSE session[s].returnUrl,
                    !.pc = "getToken",
                    !.calls = {"getToken"}]]
    /\ UNCHANGED <<players, team, session>>

\* accountApi: whether lichess would answer GET /api/account at this time.
CallbackToken(r, res, accountApi) ==
    /\ req[r].route = "callback" /\ req[r].pc = "getToken"
    /\ IF res.threw \/ res.token = NoValue
       THEN Catch(r, CallbackCatch(r))
       ELSE req' = [req EXCEPT ![r].token = res.token,
                               ![r].status = accountApi,
                               ![r].pc = "getUserInfo",
                               ![r].calls = @ \cup {"getUserInfo"}]
    /\ UNCHANGED <<players, team, session>>

CallbackUserInfo(r) ==
    /\ req[r].route = "callback" /\ req[r].pc = "getUserInfo"
    /\ LET res == getUserInfo(NoValue)   \* token.access is no field of the token
           s   == req[r].sid
       IN  IF res.threw
           THEN /\ Catch(r, CallbackCatch(r))
                /\ UNCHANGED session
           ELSE /\ session' = [session EXCEPT
                                 ![s].userId = res.data.id,
                                 ![s].userName = res.data.username,
                                 ![s].authToken = req[r].token]
                /\ Finish(r, Redirect(303, req[r].arg))
    /\ UNCHANGED <<players, team>>

(***************************************************************************)
(* The team API (line 72-108).                                              *)
(***************************************************************************)
\* POST /team/{id}/join answers ok when the caller became a member or when
\* the request to join was filed for the team leader; it can answer not ok,
\* and axios throws on a failed request.
JoinOutcomes == {"joined", "requested", "refused", "throw"}

\* Mutant: the answer of joinTeam is not looked at.
JoinOkAlways(outcome) == outcome # "throw"

JoinOk(outcome) == outcome \in {"joined", "requested"}

TeamAfterJoin(authToken, outcome) ==
    IF outcome = "joined" THEN team \cup {TokenOwner(authToken)} ELSE team

\* Mutant: the account leaves the roster whatever the kick answered.
TeamAfterKickAlways(userId, outcome) == team \ {userId}

KickOutcomes == {"ok", "notok", "throw"}

TeamAfterKick(userId, outcome) ==
    IF outcome = "ok" THEN team \ {userId} ELSE team

(***************************************************************************)
(* GET /verify/gov (line 176-210).                                          *)
(***************************************************************************)
\* Mutant: the redirect to /auth loses its query.
AuthRedirectPlain(returnUrl) == Redirect(303, "/auth")

AuthRedirect(returnUrl) == Redirect(303, "/auth?returnUrl=" \o returnUrl)

\* Mutant: findOne is given no filter and answers with any document.
FindOneAny(userId) ==
    {[threw |-> TRUE, doc |-> {}]} \cup
    (IF players = {} THEN {[threw |-> FALSE, doc |-> {}]}
                     ELSE {[threw |-> FALSE, doc |-> {p}] : p \in players})

\* Player.findOne({userId}): an exception, null, or one of the documents of
\* the account (no sort is given, the order is MongoDB's to choose).
FindOneOutcomes(userId) ==
    LET match == {p \in players : p.userId = userId}
    IN  {[threw |-> TRUE, doc |-> {}]} \cup
        (IF match = {} THEN {[threw |-> FALSE, doc |-> {}]}
                       ELSE {[threw |-> FALSE, doc |-> {p}] : p \in match})

GetVerifyStart(r, s) ==
    /\ Idle(r)
    /\ IF session[s].userId = NoValue
       THEN req' = [req EXCEPT ![r] =
                      [NewReq("getVerify", s) EXCEPT
                         !.pc = "done",
                         !.resp = AuthRedirect("/verify/gov")]]
       ELSE req' = [req EXCEPT ![r] =
                      [NewReq("getVerify", s) EXCEPT
                         !.pc = "findOne",
                         !.calls = {"findOne"}]]
    /\ UNCHANGED <<players, team, session>>

GetVerifyFound(r, res) ==
    /\ req[r].route = "getVerify" /\ req[r].pc = "findOne"
    /\ IF res.threw
       THEN Catch(r, Redirect(303, "/messages/error"))
       ELSE IF res.doc = {}
       THEN Finish(r, Render("verify/gov.html.twig"))
       ELSE IF \E p \in res.doc : p.banned
       THEN req' = [req EXCEPT ![r].found = res.doc,
                               ![r].pc = "done",
                               ![r].resp = Redirect(303, "/messages/banned")]
       ELSE req' = [req EXCEPT ![r].found = res.doc,
                               ![r].pc = "join",
                               ![r].calls = @ \cup {"joinTeam"}]
    /\ UNCHANGED <<players, team, session>>

GetVerifyJoined(r, outcome) ==
    /\ req[r].route = "getVerify" /\ req[r].pc = "join"
    /\ team' = TeamAfterJoin(session[req[r].sid].authToken, outcome)
    /\ req' = [req EXCEPT
                 ![r].join = outcome,
                 ![r].pc = "done",
                 ![r].caught = (outcome = "throw"),
                 ![r].resp = IF JoinOk(outcome)
                             THEN Redirect(303, "/messages/success")
                             ELSE Redirect(303, "/messages/error")]
    /\ UNCHANGED <<players, session>>

(***************************************************************************)
(* POST /verify/gov (line 212-278).                                         *)
(***************************************************************************)
\* Player.find(...) and Player.create(...) answer or throw.
DbOutcomes == {"ok", "throw"}

PostVerifyStart(r, s, id) ==
    /\ Idle(r)
    /\ IF session[s].userId = NoValue
       THEN req' = [req EXCEPT ![r] =
                      [NewReq("postVerify", s) EXCEPT
                         !.id = id,
                         !.pc = "done",
                         !.resp = AuthRedirect("/verify/gov")]]
       ELSE req' = [req EXCEPT ![r] =
                      [NewReq("postVerify", s) EXCEPT
                         !.id = id,
                         !.pc = "verify",
                         !.calls = {"verifyUserGovId"}]]
    /\ UNCHANGED <<players, team, session>>

\* line 222-234
PostVerifyStatus(r, status) ==
    /\ req[r].route = "postVerify" /\ req[r].pc = "verify"
    /\ req' = [req EXCEPT
                 ![r].status = status,
                 ![r].pc = IF status = "true" THEN "find" ELSE "done",
                 ![r].caught = (status = "throw"),
                 ![r].calls = IF status = "true" THEN @ \cup {"find"} ELSE @,
                 ![r].resp = CASE status = "true"  -> NoResp
                               [] status = "false" -> Redirect(303, "/verify/gov")
                               [] OTHER -> Redirect(303, "/messages/error")]
    /\ UNCHANGED <<players, team, session>>

\* Mutant: the ban is propagated whoever the banned players are.
NotOwnBanAlways(bannedPlayers, userId) == TRUE

\* line 238: no banned player found is of the account of the session
NotOwnBan(bannedPlayers, userId) ==
    ~ \E bannedPlayer \in bannedPlayers : bannedPlayer.userId = userId

\* line 231-254
PostVerifyBanned(r, outcome) ==
    /\ req[r].route = "postVerify" /\ req[r].pc = "find"
    /\ LET idSig         == Sha1(req[r].id)
           bannedPlayers == FindBanned(idSig)
           userId        == session[req[r].sid].userId
       IN  IF outcome = "throw"
           THEN Catch(r, Redirect(303, "/messages/error"))
           ELSE IF bannedPlayers # {}
           THEN IF NotOwnBan(bannedPlayers, userId)
                THEN req' = [req EXCEPT ![r].found = bannedPlayers,
                                        ![r].seen = players,
                                        ![r].pc = "createBanned",
                                        ![r].calls = @ \cup {"create"}]
                ELSE req' = [req EXCEPT ![r].found = bannedPlayers,
                                        ![r].seen = players,
                                        ![r].pc = "done",
                                        ![r].resp = Redirect(303, "/messages/banned")]
           ELSE req' = [req EXCEPT ![r].seen = players,
                                   ![r].pc = "join",
                                   ![r].calls = @ \cup {"joinTeam"}]
    /\ UNCHANGED <<players, team, session>>

\* line 239-251
PostVerifyCreateBanned(r, outcome) ==
    /\ req[r].route = "postVerify" /\ req[r].pc = "createBanned"
    /\ LET sess == session[req[r].sid]
           doc  == NewPlayer(sess.userId, sess.userName, req[r].id,
                             Sha1(req[r].id), TRUE)
       IN  IF outcome = "throw"
           THEN /\ Catch(r, Redirect(303, "/messages/error"))
                /\ UNCHANGED players
           ELSE /\ Room
                /\ players' = players \cup {doc}
                /\ req' = [req EXCEPT ![r].created = @ \cup {doc._id},
                                      ![r].pc = "done",
                                      ![r].resp = Redirect(303, "/messages/banned")]
    /\ UNCHANGED <<team, session>>

\* line 254-258
PostVerifyJoined(r, outcome) ==
    /\ req[r].route = "postVerify" /\ req[r].pc = "join"
    /\ team' = TeamAfterJoin(session[req[r].sid].authToken, outcome)
    /\ IF JoinOk(outcome)
       THEN req' = [req EXCEPT ![r].join = outcome,
                               ![r].pc = "create",
                               ![r].calls = @ \cup {"create"}]
       ELSE req' = [req EXCEPT ![r].join = outcome,
                               ![r].pc = "done",
                               ![r].caught = (outcome = "throw"),
                               ![r].resp = Redirect(303, "/messages/error")]
    /\ UNCHANGED <<players, session>>

\* line 259-270
PostVerifyCreated(r, outcome) ==
    /\ req[r].route = "postVerify" /\ req[r].pc = "create"
    /\ LET sess == session[req[r].sid]
           doc  == NewPlayer(sess.userId, sess.userName, req[r].id,
                             Sha1(req[r].id), FALSE)
       IN  IF outcome = "throw"
           THEN /\ Catch(r, Redirect(303, "/messages/error"))
                /\ UNCHANGED players
           ELSE /\ Room
                /\ players' = players \cup {doc}
                /\ req' = [req EXCEPT ![r].created = @ \cup {doc._id},
                                      ![r].pc = "done",
                                      ![r].resp = Redirect(303, "/messages/success")]
    /\ UNCHANGED <<team, session>>

(***************************************************************************)
(* The administrator's routes (line 282-393).                               *)
(***************************************************************************)
\* Mutant: the gate lets every session with a userId through.
AdminGateAuthOnly(s, returnUrl) ==
    IF session[s].userId = NoValue
    THEN Redirect(303, "/auth?returnUrl=" \o returnUrl)
    ELSE NoResp

\* line 287-293, and the same lines of the four other handlers: the answer
\* of the gate, or NoResp when the session is the administrator's.
AdminGate(s, returnUrl) ==
    IF session[s].userId = NoValue THEN AuthRedirect(returnUrl)
    ELSE IF session[s].userId # LICHESS_TEAM_ADMIN THEN Redirect(303, "/")
    ELSE NoResp

Gated(r, route, s, arg, returnUrl, pc, calls) ==
    LET answer == AdminGate(s, returnUrl)
    IN  req' = [req EXCEPT ![r] =
                  IF answer # NoResp
                  THEN [NewReq(route, s) EXCEPT !.arg = arg, !.pc = "done",
                                                !.resp = answer]
                  ELSE [NewReq(route, s) EXCEPT !.arg = arg, !.pc = pc,
                                                !.calls = calls]]

PlayerTypes == {"waiting", "verified"}

\* GET /players/:playerType(waiting|verified) (line 282-312)
PlayersListStart(r, s, playerType) ==
    /\ Idle(r)
    /\ Gated(r, "playersList", s, playerType, "/players/" \o playerType,
             "getTeamMembers", {"getTeamMembers"})
    /\ UNCHANGED <<players, team, session>>

\* getTeamMembers and getUserIds (line 62-79).  api.get answers with the
\* response stream or throws; the stream is piped into ndjson.parse(), and
\* getUserIds listens to the parser alone.  pipe() passes neither the error
\* nor the close of its source on: when the connection breaks in the middle
\* of the body, the parser emits neither 'end' nor 'error' and the promise
\* of getUserIds never settles.
MembersOutcomes == {"ok", "throw", "stall"}

PlayersListMembers(r, outcome) ==
    /\ req[r].route = "playersList" /\ req[r].pc = "getTeamMembers"
    /\ IF outcome = "throw"
       THEN Catch(r, Redirect(303, "/messages/error"))
       ELSE IF outcome = "stall"
       THEN req' = [req EXCEPT ![r].pc = "stalled"]
       ELSE req' = [req EXCEPT ![r].userIds = team,
                               ![r].pc = "find",
                               ![r].calls = @ \cup {"find"}]
    /\ UNCHANGED <<players, team, session>>

PlayersListFound(r, outcome) ==
    /\ req[r].route = "playersList" /\ req[r].pc = "find"
    /\ IF outcome = "throw"
       THEN Catch(r, Redirect(303, "/messages/error"))
       ELSE req' = [req EXCEPT
                      ![r].seen = players,
                      ![r].shown = FindPlayers(req[r].arg, req[r].userIds),
                      ![r].pc = "done",
                      ![r].resp = Render("players/" \o req[r].arg \o ".html.twig")]
    /\ UNCHANGED <<players, team, session>>

\* GET /players/banned (line 314-341)
PlayersBannedStart(r, s) ==
    /\ Idle(r)
    /\ Gated(r, "playersBanned", s, NoValue, "/players/banned", "find", {"find"})
    /\ UNCHANGED <<players, team, session>>

PlayersBannedFound(r, outcome) ==
    /\ req[r].route = "playersBanned" /\ req[r].pc = "find"
    /\ IF outcome = "throw"
       THEN Catch(r, Redirect(303, "/messages/error"))
       ELSE req' = [req EXCEPT
                      ![r].shown = {p \in players : p.banned},
                      ![r].pc = "done",
                      ![r].resp = Render("players/banned.html.twig")]
    /\ UNCHANGED <<players, team, session>>

\* Player.findOneAndUpdate({userId}, ...): an exception, no document, or
\* one of the documents of the account.
UpdateOutcomes(userId) ==
    LET match == {p \in players : p.userId = userId}
    IN  {[threw |-> TRUE, doc |-> {}]} \cup
        (IF match = {} THEN {[threw |-> FALSE, doc |-> {}]}
                       ELSE {[threw |-> FALSE, doc |-> {p}] : p \in match})

\* Mutant: the matched document is removed (findOneAndDelete).
PlayersAfterDelete(res, banned) == players \ res.doc

PlayersAfterUpdate(res, banned) ==
    IF res.doc = {} THEN players
    ELSE LET p == CHOOSE p \in res.doc : TRUE IN SetBanned(p, banned)

\* POST /players/ban (line 343-369).  Promise.all rejects with the first
\* rejection and fulfils when both calls have; the handler answers then,
\* while a call still pending runs to its end.
BanStart(r, s, user) ==
    /\ Idle(r)
    /\ LET answer == AdminGate(s, "/players/verified")
       IN  req' = [req EXCEPT ![r] =
                     IF answer # NoResp
                     THEN [NewReq("ban", s) EXCEPT !.arg = user, !.pc = "done",
                                                   !.resp = answer]
                     ELSE [NewReq("ban", s) EXCEPT
                             !.arg = user, !.pc = "all",
                             !.kick = "pending", !.upd = "pending",
                             !.calls = {"kickTeamMember", "findOneAndUpdate"}]]
    /\ UNCHANGED <<players, team, session>>

\* Mutant: the handler reads the answer of the kick and takes a kick that
\* is not ok for a failure.
BanAnswerKickOk(kick, upd) ==
    IF kick \in {"throw", "notok"} \/ upd = "throw"
    THEN Redirect(303, "/messages/error")
    ELSE IF kick # "pending" /\ upd # "pending" THEN Redirect(303, "/players/verified")
    ELSE NoResp

\* The answer of the handler once Promise.all has settled, NoResp before.
BanAnswer(kick, upd) ==
    IF kick = "throw" \/ upd = "throw" THEN Redirect(303, "/messages/error")
    ELSE IF kick # "pending" /\ upd # "pending" THEN Redirect(303, "/players/verified")
    ELSE NoResp

BanSettle(r, kick, upd) ==
    req' = [req EXCEPT
              ![r].kick = kick,
              ![r].upd = upd,
              ![r].pc = IF req[r].pc = "all" /\ BanAnswer(kick, upd) # NoResp
                        THEN "done" ELSE @,
              ![r].caught = IF req[r].pc = "all"
                            THEN (kick = "throw" \/ upd = "throw") ELSE @,
              ![r].resp = IF req[r].pc = "all" THEN BanAnswer(kick, upd) ELSE @]

BanKick(r, outcome) ==
    /\ req[r].route = "ban" /\ req[r].kick = "pending"
    /\ team' = TeamAfterKick(req[r].arg, outcome)
    /\ BanSettle(r, outcome, req[r].upd)
    /\ UNCHANGED <<players, session>>

BanUpdate(r, res) ==
    /\ req[r].route = "ban" /\ req[r].upd = "pending"
    /\ players' = PlayersAfterUpdate(res, TRUE)
    /\ BanSettle(r, req[r].kick, IF res.threw THEN "throw" ELSE "ok")
    /\ UNCHANGED <<team, session>>

\* POST /players/unban (line 371-393)
UnbanStart(r, s, user) ==
    /\ Idle(r)
    /\ Gated(r, "unban", s, user, "/players/banned", "update", {"findOneAndUpdate"})
    /\ UNCHANGED <<players, team, session>>

UnbanUpdated(r, res) ==
    /\ req[r].route = "unban" /\ req[r].pc = "update"
    /\ players' = PlayersAfterUpdate(res, FALSE)
    /\ IF res.threw THEN Catch(r, Redirect(303, "/messages/error"))
                    ELSE Finish(r, Redirect(303, "/players/verified"))
    /\ UNCHANGED <<team, session>>

(***************************************************************************)
(* The next-state relations: a request arrives, or a handler resumes from   *)
(* the await it is at with one of the answers of the call.                  *)
(*   Spec      : the verification and administration routes, a request at   *)
(*               a time.                                                    *)
(*   LoginSpec : the OAuth routes, a request at a time.  They share with    *)
(*               the other routes only the identity fields of the session,  *)
(*               which no handler of Spec writes.                           *)
(***************************************************************************)
Arrive(r) ==
    \E s \in Sessions :
        \/ Home(r, s)
        \/ \E messageType \in MessageTypes \cup {"other"} : Messages(r, s, messageType)
        \/ GetVerifyStart(r, s)
        \/ \E id \in Ids : PostVerifyStart(r, s, id)
        \/ \E playerType \in PlayerTypes : PlayersListStart(r, s, playerType)
        \/ PlayersBannedStart(r, s)
        \/ \E user \in UserIds : BanStart(r, s, user)
        \/ \E user \in UserIds : UnbanStart(r, s, user)

Resume(r) ==
    \/ /\ req[r].route = "getVerify"
       /\ \E res \in FindOneOutcomes(session[req[r].sid].userId) :
              GetVerifyFound(r, res)
    \/ \E outcome \in JoinOutcomes : GetVerifyJoined(r, outcome)
    \/ \E status \in VerifyOutcomes(req[r].id) : PostVerifyStatus(r, status)
    \/ \E outcome \in DbOutcomes : PostVerifyBanned(r, outcome)
    \/ \E outcome \in DbOutcomes : PostVerifyCreateBanned(r, outcome)
    \/ \E outcome \in JoinOutcomes : PostVerifyJoined(r, outcome)
    \/ \E outcome \in DbOutcomes : PostVerifyCreated(r, outcome)
    \/ \E outcome \in MembersOutcomes : PlayersListMembers(r, outcome)
    \/ \E outcome \in DbOutcomes : PlayersListFound(r, outcome)
    \/ \E outcome \in DbOutcomes : PlayersBannedFound(r, outcome)
    \/ \E outcome \in KickOutcomes : BanKick(r, outcome)
    \/ \E res \in UpdateOutcomes(req[r].arg) : BanUpdate(r, res)
    \/ \E res \in UpdateOutcomes(req[r].arg) : UnbanUpdated(r, res)
    \/ Close(r)

Next == Arrive(1) \/ Resume(1)

Spec == Init /\ [][Next]_vars

LoginArrive(r) ==
    \E s \in Sessions :
        \/ \E returnUrl \in ReturnUrls : Auth(r, s, returnUrl)
        \/ CallbackStart(r, s)

LoginResume(r) ==
    \/ \E res \in TokenOutcomes, accountApi \in DbOutcomes :
           CallbackToken(r, res, accountApi)
    \/ CallbackUserInfo(r)
    \/ Close(r)

LoginNext == LoginArrive(1) \/ LoginResume(1)

LoginSpec == Init /\ [][LoginNext]_vars

(***************************************************************************)
(*   NoUnbanSpec : Spec without POST /players/unban.                        *)
(***************************************************************************)
NoUnbanArrive(r) ==
    \E s \in Sessions :
        \/ GetVerifyStart(r, s)
        \/ \E id \in Ids : PostVerifyStart(r, s, id)
        \/ \E user \in UserIds : BanStart(r, s, user)

NoUnbanResume(r) ==
    \/ /\ req[r].route = "getVerify"
       /\ \E res \in FindOneOutcomes(session[req[r].sid].userId) :
              GetVerifyFound(r, res)
    \/ \E outcome \in JoinOutcomes : GetVerifyJoined(r, outcome)
    \/ \E status \in VerifyOutcomes(req[r].id) : PostVerifyStatus(r, status)
    \/ \E outcome \in DbOutcomes : PostVerifyBanned(r, outcome)
    \/ \E outcome \in DbOutcomes : PostVerifyCreateBanned(r, outcome)
    \/ \E outcome \in JoinOutcomes : PostVerifyJoined(r, outcome)
    \/ \E outcome \in DbOutcomes : PostVerifyCreated(r, outcome)
    \/ \E outcome \in KickOutcomes : BanKick(r, outcome)
    \/ \E res \in UpdateOutcomes(req[r].arg) : BanUpdate(r, res)
    \/ Close(r)

NoUnbanNext == NoUnbanArrive(1) \/ NoUnbanResume(1)

NoUnbanSpec == Init /\ [][NoUnbanNext]_vars

(***************************************************************************)
(*   ConcSpec : POST /verify/gov, two requests in flight, of any two        *)
(*              sessions or of the same one.  The collection is MongoDB's   *)
(*              and outlives the process: the application starts with the   *)
(*              document of alice that the administrator has banned, a      *)
(*              state Spec reaches.                                         *)
(***************************************************************************)
SeedPlayers ==
    {[_id            |-> 0,
      userId         |-> "alice",
      userName       |-> UserNameOf("alice"),
      firstName      |-> FormName,
      lastName       |-> FormSurname,
      birthYear      |-> FormYear,
      govId          |-> MaskGovId(Id8),
      govIdSignature |-> Sha1(Id8),
      banned         |-> TRUE]}

ConcInit ==
    /\ players = SeedPlayers
    /\ team = {}
    /\ session = [s \in Sessions |->
                    [userId    |-> SessionUser(s),
                     userName  |-> UserNameOf(SessionUser(s)),
                     authToken |-> TokenOf(SessionUser(s)),
                     returnUrl |-> NoValue]]
    /\ req = [r \in ReqIds |-> IdleReq]

\* The sessions that send requests: the one of the banned account and the
\* one of another account.
ConcSessions == {"s1", "s2"}

ConcStep(r) ==
    \/ \E s \in ConcSessions, id \in Ids : PostVerifyStart(r, s, id)
    \/ \E status \in VerifyOutcomes(req[r].id) : PostVerifyStatus(r, status)
    \/ \E outcome \in DbOutcomes : PostVerifyBanned(r, outcome)
    \/ \E outcome \in DbOutcomes : PostVerifyCreateBanned(r, outcome)
    \/ \E outcome \in JoinOutcomes : PostVerifyJoined(r, outcome)
    \/ \E outcome \in DbOutcomes : PostVerifyCreated(r, outcome)
    \/ Close(r)

ConcNext == \E r \in ReqIds : ConcStep(r)

ConcSpec == ConcInit /\ [][ConcNext]_vars

(***************************************************************************)
(* The claims.                                                              *)
(***************************************************************************)
UserOf(r) == session[req[r].sid].userId

JoinCalled(r) == "joinTeam" \in req[r].calls

VerifyRoutes == {"getVerify", "postVerify"}

AdminRoutes == {"playersList", "playersBanned", "ban", "unban"}

ToError == Redirect(303, "/messages/error")

ToBanned == Redirect(303, "/messages/banned")

ToSuccess == Redirect(303, "/messages/success")

\* The documents request r created, as the collection holds them.
CreatedBy(r) == {p \in players : p._id \in req[r].created}

\* C1: joinTeam is called only (a) by POST /verify/gov, after the identity
\* check answered true and while no banned document carries the signature
\* of the submitted id, or (b) by GET /verify/gov, after findOne gave a
\* document of the account that is not banned; never for a session without
\* userId.
C1_MembershipGate ==
    [][\A r \in ReqIds :
         (~JoinCalled(r) /\ "joinTeam" \in req'[r].calls) =>
            /\ UserOf(r) # NoValue
            /\ \/ /\ req[r].route = "postVerify"
                  /\ req[r].pc = "find"
                  /\ req[r].status = "true"
                  /\ ~ \E p \in players :
                         p.banned /\ p.govIdSignature = Sha1(req[r].id)
               \/ /\ req[r].route = "getVerify"
                  /\ req[r].pc = "findOne"
                  /\ \E p \in players :
                         /\ req'[r].found = {p}
                         /\ p.userId = UserOf(r)
                         /\ ~p.banned]_vars

\* joinTeam is called by GET /verify/gov while a banned document of another
\* account is in the collection.
C1_Witness ==
    \E r \in ReqIds :
        /\ req[r].route = "getVerify"
        /\ JoinCalled(r)
        /\ \E p \in players : p.banned

\* The POST passed the identity check, found no banned match and joined.
PostJoinedOk(r) ==
    /\ req[r].route = "postVerify"
    /\ Done(r)
    /\ req[r].status = "true"
    /\ JoinCalled(r)
    /\ req[r].join \in {"joined", "requested"}

OneNewPlayer(r) ==
    /\ Cardinality(req[r].created) = 1
    /\ Cardinality(CreatedBy(r)) = 1
    /\ \A p \in CreatedBy(r) :
          /\ ~p.banned
          /\ p.userId = UserOf(r)
          /\ p.govIdSignature = Sha1(req[r].id)

\* C2 as stated: identity check true, no banned match and join ok give
\* exactly one new non-banned document of the account with the signature
\* of the submitted id, and a redirect to /messages/success.
C2_Original ==
    \A r \in ReqIds :
        PostJoinedOk(r) => OneNewPlayer(r) /\ req[r].resp = ToSuccess

\* C2 as amended: so it is when Player.create does not throw; when it
\* throws, no document is created and the redirect is to /messages/error.
C2_JoinedThenCreated ==
    \A r \in ReqIds :
        PostJoinedOk(r) =>
            IF req[r].caught
            THEN req[r].created = {} /\ req[r].resp = ToError
            ELSE OneNewPlayer(r) /\ req[r].resp = ToSuccess

C2_Witness ==
    \E r \in ReqIds :
        PostJoinedOk(r) /\ ~req[r].caught /\ req[r].id = Id11 /\ players # CreatedBy(r)

\* The POST passed the identity check and the lookup gave banned documents.
PostMatchedBan(r) ==
    /\ req[r].route = "postVerify"
    /\ Done(r)
    /\ req[r].status = "true"
    /\ req[r].found # {}

OwnBan(r) == \E p \in req[r].found : p.userId = UserOf(r)

OneNewBan(r) ==
    /\ Cardinality(req[r].created) = 1
    /\ Cardinality(CreatedBy(r)) = 1
    /\ \A p \in CreatedBy(r) : p.banned /\ p.userId = UserOf(r)

\* C3 as stated: with a banned match the redirect is to /messages/banned,
\* joinTeam is not called, and a banned document of the account is created
\* exactly when no matching document is of the account.
C3_Original ==
    \A r \in ReqIds :
        PostMatchedBan(r) =>
            /\ req[r].resp = ToBanned
            /\ ~JoinCalled(r)
            /\ IF OwnBan(r) THEN req[r].created = {} ELSE OneNewBan(r)

\* C3 as amended: so it is when Player.create does not throw; when it
\* throws, no document is created and the redirect is to /messages/error.
C3_BanPropagation ==
    \A r \in ReqIds :
        PostMatchedBan(r) =>
            /\ ~JoinCalled(r)
            /\ \A p \in req[r].found :
                  p.banned /\ p.govIdSignature = Sha1(req[r].id)
            /\ IF OwnBan(r)
               THEN req[r].created = {} /\ req[r].resp = ToBanned
               ELSE IF req[r].caught
               THEN req[r].created = {} /\ req[r].resp = ToError
               ELSE OneNewBan(r) /\ req[r].resp = ToBanned

\* Both cases: another account's ban was propagated, and now the same
\* account submits the id again.
C3_Witness ==
    \E r \in ReqIds :
        /\ PostMatchedBan(r)
        /\ OwnBan(r)
        /\ Cardinality(req[r].found) = 2

\* C4 as stated: every admin route answers a session that is not the
\* administrator's, with or without userId, with a redirect to "/".
C4_Original ==
    \A r \in ReqIds :
        (req[r].route \in AdminRoutes /\ Done(r) /\ UserOf(r) # LICHESS_TEAM_ADMIN)
            => req[r].resp.kind = "redirect" /\ req[r].resp.to = "/"

\* The page the login returns to, for each admin route.
AdminReturnUrl(r) ==
    CASE req[r].route = "playersList"   -> "/players/" \o req[r].arg
      [] req[r].route = "playersBanned" -> "/players/banned"
      [] req[r].route = "ban"           -> "/players/verified"
      [] req[r].route = "unban"         -> "/players/banned"

\* C4 as amended: every admin route answers a session with a userId that
\* is not the administrator's with a redirect to "/", and a session without
\* userId with a redirect to /auth carrying the page to return to; in both
\* cases without any call.
C4_AdminGate ==
    \A r \in ReqIds :
        (req[r].route \in AdminRoutes /\ UserOf(r) # LICHESS_TEAM_ADMIN) =>
            /\ Done(r)
            /\ req[r].calls = {}
            /\ req[r].resp = IF UserOf(r) = NoValue
                             THEN Redirect(303, "/auth?returnUrl=" \o AdminReturnUrl(r))
                             ELSE Redirect(303, "/")

\* An ordinary account asks to ban another while the collection holds that
\* account's document.
C4_Witness ==
    \E r \in ReqIds :
        /\ req[r].route = "ban"
        /\ Done(r)
        /\ UserOf(r) = "alice"
        /\ \E p \in players : p.userId = req[r].arg /\ ~p.banned

\* C5: GET and POST /verify/gov answer a session without userId with a
\* redirect to /auth?returnUrl=/verify/gov, and make no call on the way: no
\* identity check, no join, no read or write of the collection.
C5_AnonymousVerify ==
    \A r \in ReqIds :
        (req[r].route \in VerifyRoutes /\ UserOf(r) = NoValue) =>
            /\ Done(r)
            /\ req[r].resp = Redirect(303, "/auth?returnUrl=/verify/gov")
            /\ req[r].calls = {}
            /\ req[r].created = {}

C5_Witness ==
    \E r \in ReqIds :
        /\ req[r].route = "postVerify"
        /\ req[r].id = Id8
        /\ UserOf(r) = NoValue
        /\ Done(r)
        /\ players # {}

\* What the lists are to hold, from the collection and the roster.
NotBanned(docs) == {p \in docs : ~p.banned}

Waiting(docs, roster) == {p \in docs : ~p.banned /\ p.userId \notin roster}

Verified(docs, roster) == {p \in docs : ~p.banned /\ p.userId \in roster}

ListRendered(r) ==
    /\ req[r].route = "playersList"
    /\ Done(r)
    /\ req[r].resp.kind = "render"

\* C6: for the administrator, /players/waiting shows exactly the documents
\* not banned whose userId is not on the roster getTeamMembers gave, and
\* /players/verified exactly those whose userId is on it; for one
\* collection and one roster the two lists are disjoint, hold no banned
\* document and together hold every document that is not banned.
C6_PlayerLists ==
    \A r \in ReqIds :
        ListRendered(r) =>
            LET roster == req[r].userIds
                docs   == req[r].seen
                w      == FindPlayers("waiting", roster)
                v      == FindPlayers("verified", roster)
            IN  /\ UserOf(r) = LICHESS_TEAM_ADMIN
                /\ req[r].arg = "waiting" => req[r].shown = Waiting(docs, roster)
                /\ req[r].arg = "verified" => req[r].shown = Verified(docs, roster)
                /\ docs = players =>
                      /\ req[r].shown = IF req[r].arg = "waiting" THEN w ELSE v
                      /\ w \cap v = {}
                      /\ w \cup v = NotBanned(players)

\* A list that is neither empty nor all the documents that are not banned.
C6_Witness ==
    \E r \in ReqIds :
        /\ ListRendered(r)
        /\ req[r].arg = "verified"
        /\ req[r].shown # {}
        /\ req[r].shown # NotBanned(req[r].seen)

\* The first three characters kept, the five after them starred, the rest
\* kept.
MaskedOf(govId, id) ==
    /\ Len(govId) = Len(id)
    /\ Len(id) >= 8
    /\ \A k \in 1..Len(id) :
          govId[k] = IF k \in 4..8 THEN "*" ELSE id[k]

LoginCanComplete(r) ==
    /\ req[r].route = "callback"
    /\ Done(r)
    /\ req[r].token # NoValue
    /\ req[r].status = "ok"

\* C8: when GET /callback is handled and both the token exchange and the
\* fetch of the account succeed, the session ends with userId, userName and
\* authToken of the account, and the answer is a 303 to the return URL that
\* /auth stored ("/" if none).
C8_LoginCompletes ==
    \A r \in ReqIds :
        LoginCanComplete(r) =>
            /\ session[req[r].sid].userId = TokenOwner(req[r].token)
            /\ session[req[r].sid].userName = UserNameOf(TokenOwner(req[r].token))
            /\ session[req[r].sid].authToken = req[r].token
            /\ req[r].resp = Redirect(303, req[r].arg)

\* C9: when a step of GET /callback fails (the token exchange throws, there
\* is no token, or the fetch of the account throws), the answer is a
\* redirect to "/" and userId, userName and authToken of the session are
\* what they were before.
C9_LoginFailure ==
    [][\A r \in ReqIds :
         (req[r].route = "callback" /\ ~Done(r) /\ req'[r].pc = "done"
              /\ req'[r].caught) =>
            /\ req'[r].resp = Redirect(303, "/")
            /\ \A s \in Sessions :
                  /\ session'[s].userId = session[s].userId
                  /\ session'[s].userName = session[s].userName
                  /\ session'[s].authToken = session[s].authToken]_vars

\* The fetch of the account failed, for a session that /auth gave a return
\* URL, after another account's token was obtained.
C9_Witness ==
    \E r \in ReqIds :
        /\ req[r].route = "callback"
        /\ Done(r)
        /\ req[r].caught
        /\ req[r].token = "tok-bob"
        /\ req[r].sid = "s1"
        /\ req[r].arg = "/verify/gov"

\* C10: an authenticated POST /verify/gov writes nothing on its failure
\* branches: on a falsy identity check it redirects to /verify/gov without
\* calling joinTeam; when the check is true, no banned match exists and
\* joinTeam answers not ok or throws, it redirects to /messages/error; in
\* both cases no document is created.
C10_NoWriteOnFailure ==
    \A r \in ReqIds :
        (req[r].route = "postVerify" /\ Done(r) /\ UserOf(r) # NoValue) =>
            /\ req[r].status = "false" =>
                  /\ req[r].resp = Redirect(303, "/verify/gov")
                  /\ ~JoinCalled(r)
                  /\ "create" \notin req[r].calls
                  /\ req[r].created = {}
            /\ (JoinCalled(r) /\ req[r].join \in {"refused", "throw"}) =>
                  /\ req[r].status = "true"
                  /\ req[r].found = {}
                  /\ req[r].resp = ToError
                  /\ "create" \notin req[r].calls
                  /\ req[r].created = {}

\* joinTeam answered not ok while the collection held a document.
C10_Witness ==
    \E r \in ReqIds :
        /\ req[r].route = "postVerify"
        /\ Done(r)
        /\ JoinCalled(r)
        /\ req[r].join = "refused"
        /\ players # {}

(***************************************************************************)
(* C11  POST /players/ban by the administrator                              *)
(***************************************************************************)
ToVerified == Redirect(303, "/players/verified")

\* The ban of an administrator session that has been answered.
BanAnswered(r) ==
    /\ req[r].route = "ban"
    /\ Done(r)
    /\ UserOf(r) = LICHESS_TEAM_ADMIN

BothStarted(r) == req[r].calls = {"kickTeamMember", "findOneAndUpdate"}

\* C11 as stated: the ban of an administrator starts the kick and the
\* update and is answered with a redirect to /players/verified whatever the
\* two calls gave.
C11_Original ==
    \A r \in ReqIds :
        BanAnswered(r) => BothStarted(r) /\ req[r].resp = ToVerified

\* C11 as amended: the ban of an administrator starts the kick and the
\* update; it is answered with a redirect to /players/verified when neither
\* call throws (the kick ok or not ok, the update with or without a
\* matching document), and with a redirect to /messages/error when one of
\* them throws.
C11_BanRedirect ==
    \A r \in ReqIds :
        BanAnswered(r) =>
            /\ BothStarted(r)
            /\ IF req[r].caught
               THEN /\ req[r].resp = ToError
                    /\ req[r].kick = "throw" \/ req[r].upd = "throw"
               ELSE /\ req[r].resp = ToVerified
                    /\ req[r].kick \in {"ok", "notok"}
                    /\ req[r].upd = "ok"

\* A ban answered with /players/verified although the kick was not ok and
\* the account has no document to update.
C11_Witness ==
    \E r \in ReqIds :
        /\ BanAnswered(r)
        /\ req[r].resp = ToVerified
        /\ req[r].kick = "notok"
        /\ players # {}
        /\ ~ \E p \in players : p.userId = req[r].arg

(***************************************************************************)
(* C12  the two halves of a ban                                             *)
(***************************************************************************)
\* C12: the kick and the update of a ban settle one by one and neither
\* looks at the other: the step that settles the kick takes the target off
\* the roster exactly when the kick is ok and leaves the collection alone;
\* the step that settles the update marks at most one document of the
\* target banned, none when it throws, and leaves the roster alone; no
\* other step of the handler touches either.  A half that succeeded is not
\* undone when the other half fails.
C12_BanNotAtomic ==
    [][\A r \in ReqIds :
         (req[r].route = "ban" /\ req'[r].route = "ban") =>
            LET target == req[r].arg
                kickSettles == req[r].kick = "pending" /\ req'[r].kick # "pending"
                updSettles  == req[r].upd = "pending" /\ req'[r].upd # "pending"
            IN  /\ kickSettles =>
                      /\ players' = players
                      /\ team' = IF req'[r].kick = "ok"
                                 THEN team \ {target} ELSE team
                /\ updSettles =>
                      /\ team' = team
                      /\ IF req'[r].upd = "throw"
                         THEN players' = players
                         ELSE \/ /\ players' = players
                                 /\ ~ \E p \in players : p.userId = target
                              \/ \E p \in players :
                                    /\ p.userId = target
                                    /\ players' = (players \ {p}) \cup
                                                  {[p EXCEPT !.banned = TRUE]}
                /\ (~kickSettles /\ ~updSettles) =>
                      players' = players /\ team' = team]_vars

\* A ban is over, its update marked the only document, created not banned,
\* of the target banned, its kick was not ok, and the target is still on
\* the roster.
C12_Witness ==
    \E r \in ReqIds :
        /\ BanAnswered(r)
        /\ req[r].kick = "notok"
        /\ req[r].upd = "ok"
        /\ req[r].arg \in team
        /\ Cardinality(players) = 1
        /\ \E p \in players : p.userId = req[r].arg /\ p.banned

(***************************************************************************)
(* C13  POST /players/unban                                                 *)
(***************************************************************************)
\* The step of request r in which findOneAndUpdate of an unban answers.
UnbanStep(r) ==
    /\ req[r].route = "unban"
    /\ req[r].pc = "update"
    /\ req'[r].pc = "done"

\* C13: the unban of an administrator sets banned to false on at most one
\* document, one whose userId is the submitted one, and changes nothing
\* else: it calls findOneAndUpdate alone, never the team API, creates no
\* document, leaves the roster and every other document as they are, the
\* banned documents of other accounts with the same signature included.
C13_UnbanFrame ==
    [][\A r \in ReqIds :
         /\ UnbanStep(r) =>
               /\ team' = team
               /\ req'[r].calls = {"findOneAndUpdate"}
               /\ req'[r].created = {}
               /\ \/ players' = players
                  \/ \E p \in players :
                        /\ p.userId = req[r].arg
                        /\ players' = (players \ {p}) \cup
                                      {[p EXCEPT !.banned = FALSE]}
         /\ (req[r].route = "unban" /\ ~UnbanStep(r)) =>
               players' = players /\ team' = team]_vars

\* An unban cleared the document of its target while the banned document
\* of another account with the same signature stayed banned.
C13_Witness ==
    \E r \in ReqIds :
        /\ req[r].route = "unban"
        /\ Done(r)
        /\ ~req[r].caught
        /\ \E p, q \in players :
              /\ p.userId = req[r].arg
              /\ ~p.banned
              /\ q.userId # req[r].arg
              /\ q.banned
              /\ q.govIdSignature = p.govIdSignature

(***************************************************************************)
(* C14  what a document goes through                                        *)
(***************************************************************************)
\* Documents p and q agree on every field but banned.
SameIdentity(p, q) ==
    /\ q.userId = p.userId
    /\ q.userName = p.userName
    /\ q.firstName = p.firstName
    /\ q.lastName = p.lastName
    /\ q.birthYear = p.birthYear
    /\ q.govId = p.govId
    /\ q.govIdSignature = p.govIdSignature

\* C14: in every step each document of the collection stays in it with its
\* userId, userName, firstName, lastName, birthYear, govId and
\* govIdSignature; a document that is new was created by a step of
\* POST /verify/gov; and banned changes only in a step of POST /players/ban
\* (to true) or POST /players/unban (to false) of a session whose userId is
\* the administrator's, on a document of the submitted account.
C14_RecordLifecycle ==
    [][/\ \A p \in players :
             \E q \in players' : q._id = p._id /\ SameIdentity(p, q)
       /\ Cardinality(players') >= Cardinality(players)
       /\ \A q \in players' :
             (\A p \in players : p._id # q._id) =>
                \E r \in ReqIds :
                   /\ req[r].route = "postVerify"
                   /\ req'[r].created = req[r].created \cup {q._id}
                   /\ q._id \notin req[r].created
       /\ \A p \in players, q \in players' :
             (q._id = p._id /\ q.banned # p.banned) =>
                \E r \in ReqIds :
                   /\ req[r].route \in {"ban", "unban"}
                   /\ req'[r] # req[r]
                   /\ UserOf(r) = LICHESS_TEAM_ADMIN
                   /\ p.userId = req[r].arg
                   /\ q.banned <=> req[r].route = "ban"]_vars

\* Two documents are stored, and a ban has marked one of them while the
\* other, of another account, is not banned.
C14_Witness ==
    \E r \in ReqIds :
        /\ BanAnswered(r)
        /\ req[r].upd = "ok"
        /\ Cardinality(players) = 2
        /\ \E p, q \in players :
              /\ p.userId = req[r].arg /\ p.banned
              /\ q.userId # req[r].arg /\ ~q.banned

(***************************************************************************)
(* C15  documents with the same signature                                   *)
(***************************************************************************)
\* The documents that are not banned and carry the signature of the id
\* request r submitted.
SameSigNotBanned(r, docs) ==
    {p \in docs : ~p.banned /\ p.govIdSignature = Sha1(req[r].id)}

\* C15: documents that are not banned never stand in the way of another
\* one with their signature.  When the lookup of POST /verify/gov answers
\* and no banned document carries the signature, the handler goes on to
\* joinTeam, however many documents that are not banned carry it; and when
\* Player.create answers after the join, the collection has one more
\* document that is not banned, of the account, with that signature, next
\* to those it already had.
C15_DuplicatesAllowed ==
    [][\A r \in ReqIds :
         req[r].route = "postVerify" =>
            /\ ( /\ req[r].pc = "find"
                 /\ req'[r].pc # "find"
                 /\ ~req'[r].caught
                 /\ ~ \E p \in players :
                        p.banned /\ p.govIdSignature = Sha1(req[r].id) )
               => req'[r].pc = "join"
            /\ ( /\ req[r].pc = "create"
                 /\ req'[r].pc = "done"
                 /\ ~req'[r].caught )
               => /\ \E q \in SameSigNotBanned(r, players') :
                        /\ q \notin players
                        /\ q.userId = UserOf(r)
                        /\ players' = players \cup {q}
                  /\ Cardinality(SameSigNotBanned(r, players')) =
                        Cardinality(SameSigNotBanned(r, players)) + 1]_vars

\* The account verified the same id twice and joined twice: two documents
\* of it with one signature, neither banned.
C15_Witness ==
    \E r \in ReqIds :
        /\ PostJoinedOk(r)
        /\ ~req[r].caught
        /\ \E p \in CreatedBy(r), q \in players \ CreatedBy(r) :
              /\ ~p.banned /\ ~q.banned
              /\ q.govIdSignature = p.govIdSignature
              /\ q.userId = p.userId

(***************************************************************************)
(* C16  GET /verify/gov of an authenticated session                         *)
(***************************************************************************)
\* C16: when findOne answers an authenticated GET /verify/gov, the handler
\* goes by the document it gave: none, and the account has none, renders
\* the form without a join; a banned document of the account redirects to
\* /messages/banned without a join; a document of the account that is not
\* banned calls joinTeam, whose answer decides between /messages/success
\* (ok) and /messages/error (not ok, or thrown).  No step of the handler
\* changes the collection or creates a document.
C16_GetVerifyBranches ==
    [][\A r \in ReqIds :
         req[r].route = "getVerify" =>
            /\ players' = players
            /\ req'[r].created = {}
            /\ ( /\ req[r].pc = "findOne"
                 /\ req'[r].pc # "findOne"
                 /\ ~req'[r].caught )
               => IF req'[r].found = {}
                  THEN /\ ~ \E p \in players : p.userId = UserOf(r)
                       /\ req'[r].pc = "done"
                       /\ req'[r].resp = Render("verify/gov.html.twig")
                       /\ req'[r].calls = {"findOne"}
                       /\ team' = team
                  ELSE \E p \in players :
                          /\ req'[r].found = {p}
                          /\ p.userId = UserOf(r)
                          /\ team' = team
                          /\ IF p.banned
                             THEN /\ req'[r].pc = "done"
                                  /\ req'[r].resp = ToBanned
                                  /\ req'[r].calls = {"findOne"}
                             ELSE /\ req'[r].pc = "join"
                                  /\ req'[r].resp = NoResp
                                  /\ req'[r].calls = {"findOne", "joinTeam"}
            /\ ( req[r].pc = "join" /\ req'[r].pc # "join" )
               => /\ req'[r].pc = "done"
                  /\ req'[r].calls = req[r].calls
                  /\ req'[r].resp =
                        IF req'[r].join \in {"joined", "requested"}
                        THEN ToSuccess ELSE ToError]_vars

\* A GET /verify/gov found a document that is not banned, the team
\* refused the join, and the answer is the error page.
C16_Witness ==
    \E r \in ReqIds :
        /\ req[r].route = "getVerify"
        /\ Done(r)
        /\ req[r].found # {}
        /\ \A p \in req[r].found : ~p.banned
        /\ req[r].join = "refused"
        /\ req[r].resp = ToError

(***************************************************************************)
(* C17  a banned account and /verify/gov  (NoUnbanSpec: no unban is ever    *)
(*      issued)                                                             *)
(***************************************************************************)
\* The collection holds a banned document of the account of request r.
AccountBanned(r) ==
    \E p \in players : p.userId = UserOf(r) /\ p.banned

\* C17 as stated: while the collection holds a banned document of an
\* account, no step of a GET or POST /verify/gov of that account calls
\* joinTeam or creates a document of the account that is not banned.
C17_BanSticks ==
    [][\A r \in ReqIds :
         ( /\ req[r].route \in VerifyRoutes
           /\ UserOf(r) # NoValue
           /\ AccountBanned(r) )
         => /\ JoinCalled(r) \/ "joinTeam" \notin req'[r].calls
            /\ ~ \E q \in players' \ players :
                    q.userId = UserOf(r) /\ ~q.banned]_vars

(***************************************************************************)
(* C18  concurrent POST /verify/gov  (ConcSpec)                             *)
(***************************************************************************)
\* C18 as stated: the collection never holds two banned documents with the
\* same userId and the same govIdSignature.
C18_Original ==
    \A p, q \in players :
        ( /\ p.banned /\ q.banned
          /\ p.userId = q.userId
          /\ p.govIdSignature = q.govIdSignature )
        => p = q

\* Request r creates a banned document in this step.
CreatesBan(r) ==
    /\ req[r].route = "postVerify"
    /\ req[r].pc = "createBanned"
    /\ req'[r].created # req[r].created

\* C18 as amended: the lookup and the create are two steps.  A request that
\* creates a banned document while the collection is still as its lookup
\* read it creates the first banned document of its account with that
\* signature; a second one can only come from a request whose lookup
\* another write has followed, as with two requests of one account in
\* flight together.
C18_LookupThenCreate ==
    [][\A r \in ReqIds :
         (CreatesBan(r) /\ req[r].seen = players) =>
            ~ \E p \in players :
                 /\ p.banned
                 /\ p.userId = UserOf(r)
                 /\ p.govIdSignature = Sha1(req[r].id)]_vars

\* One request has created the banned document of its account while
\* another of the same session, with the same id, has made its lookup
\* before and is about to create its own.
C18_Witness ==
    \E r, o \in ReqIds :
        /\ r # o
        /\ req[r].route = "postVerify" /\ Done(r)
        /\ CreatedBy(r) # {}
        /\ \A p \in CreatedBy(r) : p.banned
        /\ players = req[r].seen \cup CreatedBy(r)
        /\ req[o].route = "postVerify" /\ req[o].pc = "createBanned"
        /\ req[o].sid = req[r].sid
        /\ req[o].id = req[r].id
        /\ req[o].seen = req[r].seen

(***************************************************************************)
(* C19  every request is answered, once                                     *)
(***************************************************************************)
\* C19 as stated: a request that has not been answered yet has a step to
\* take, whatever the services it awaits do; a request that is over has
\* its one answer; and in the handlers of /verify/gov and /players/* a
\* failure that was caught is answered with a redirect to /messages/error.
C19_AlwaysAnswered ==
    \A r \in ReqIds :
        /\ (~Idle(r) /\ ~Done(r)) =>
              /\ req[r].resp = NoResp
              /\ ENABLED Resume(r)
        /\ Done(r) => req[r].resp # NoResp
        /\ (req[r].caught /\ req[r].route \in VerifyRoutes \cup AdminRoutes) =>
              req[r].resp = ToError

====
